---- MODULE Spec2Model ----
(***************************************************************************)
(* Model of src/streamlit_app.py: a Streamlit script that is re-evaluated  *)
(* top to bottom after every user interaction.  Widget values and          *)
(* st.session_state survive between evaluations, the script's local        *)
(* variables and the rendered page do not.  The temp directory is the only *)
(* other state that survives.                                              *)
(*                                                                         *)
(* pc is the script's position inside one evaluation; "idle" means the     *)
(* evaluation is over and the page waits for the user.  Everything outside *)
(* the repository (the user, Gemini/Agent construction, PIL/file I/O, the  *)
(* remote agent call, the attributes of the pasted-image object) is a      *)
(* nondeterministic choice.                                                *)
(***************************************************************************)
EXTENDS Integers, Sequences, FiniteSets, TLC

\* ------------------------------------------------------------------ bounds
MaxTempFiles == 3      \* temp files the model lets accumulate before runs stop
MaxFocus     == 1      \* largest focus-tag selection the user makes

\* ------------------------------------------------------------------ values
None  == "None"        \* Python None
Unset == "unset"       \* a session_state key / widget value that does not exist yet

Keys        == {"k1", "k2"}                 \* non-empty credential strings
Credentials == {""} \cup Keys
Images      == {"imgA", "imgB"}             \* images the user may paste
Contexts    == {"", "b2b dashboard"}

AnalysisTypes == {"Visual Design", "User Experience"}
DefaultTypes  == {"User Experience"}
FocusAreas    == {"Color Scheme", "Typography", "Layout", "Navigation",
                  "Interactions", "Accessibility"}
DefaultFocus  == {"Interactions"}
FocusChoices  == {S \in SUBSET FocusAreas : Cardinality(S) <= MaxFocus}
                   \cup {DefaultFocus}

\* ------------------------------------------------------- rendered elements
SuccessKey      == "success: API Key provided!"
WarnKey         == "warning: Please enter your API key to proceed"
HelpKey         == "markdown: To get your API key"
HeaderApp       == "header: Multimodal AI Design Agent Team"
ErrInit         == "error: Error initializing agents"
InfoKey         == "info: Please enter your API key in the sidebar to get started"
SubheaderUpload == "subheader: Upload Design"
PastedImage     == "image: pasted"
SubheaderConfig == "subheader: Configuration"
ButtonRun       == "button: Run Analysis"
ErrImage        == "error: Error processing image"
HeadingVision   == "subheader: Visual Design Analysis"
ContentVision   == "markdown: vision response"
HeadingUX       == "subheader: UX Analysis"
ContentUX       == "markdown: ux response"
HeadingTakeaways == "subheader: Key Takeaways"
InfoTakeaways   == "info: detailed analysis from multiple agents"
ErrAnalysis     == "error: An error occurred during analysis"
HintKey         == "error: Please check your API key and try again."
WarnNoDesign    == "warning: Please upload at least one design to analyze."
FooterRule      == "markdown: ---"
FooterTips      == "markdown: Tips for Best Results"

VARIABLES
    pc,                \* position of the script evaluation
    api_key_widget,    \* browser-side value of the credential text input
    paste_widget,      \* image held by the paste button component, or None
    types_widget,      \* selection of "Select Analysis Types"
    focus_widget,      \* selection of "Focus Areas"
    context_widget,    \* text of "Additional Context"
    clicked,           \* "Run Analysis" was pressed and triggers this evaluation
    api_key_input,     \* st.session_state.api_key_input
    api_key,           \* script local
    vision_agent,      \* script local
    ux_agent,          \* script local
    design_files,      \* script local
    analysis_types,    \* script local
    specific_elements, \* script local
    context,           \* script local
    file_idx,          \* process_images: index of the next file of the loop
    processed_images,  \* process_images local
    image_urls,        \* script local
    tempFiles,         \* files present in tempfile.gettempdir()
    out,               \* elements rendered by this evaluation, in order
    calls,             \* remote agent calls of this evaluation, in order
    uncaught,          \* this evaluation ended in an exception nobody caught
    init_called,       \* history: initialize_agents was entered in this evaluation
    failed_files,      \* history: files whose conversion raised in this evaluation
    files_at_start     \* history: tempFiles when this evaluation started

widgets == <<api_key_widget, paste_widget, types_widget, focus_widget, context_widget>>
locals  == <<api_key, vision_agent, ux_agent, design_files, analysis_types,
             specific_elements, context, file_idx, processed_images, image_urls>>
history == <<init_called, failed_files, files_at_start>>
vars    == <<pc, widgets, clicked, api_key_input, locals, tempFiles, out, calls,
             uncaught, history>>

Rendered(e) == \E i \in 1..Len(out) : out[i] = e
Pos(e)      == CHOOSE i \in 1..Len(out) : out[i] = e
Count(e)    == Cardinality({i \in 1..Len(out) : out[i] = e})

\* ------------------------------------------------------------ session start
Init ==
    /\ pc = "sidebar"
    /\ api_key_widget = Unset
    /\ paste_widget = None
    /\ types_widget = DefaultTypes
    /\ focus_widget = DefaultFocus
    /\ context_widget = ""
    /\ clicked = FALSE
    /\ api_key_input = Unset
    /\ api_key = None
    /\ vision_agent = None
    /\ ux_agent = None
    /\ design_files = <<>>
    /\ analysis_types = {}
    /\ specific_elements = {}
    /\ context = ""
    /\ file_idx = 1
    /\ processed_images = <<>>
    /\ image_urls = <<>>
    /\ tempFiles = {}
    /\ out = <<>>
    /\ calls = <<>>
    /\ uncaught = FALSE
    /\ init_called = FALSE
    /\ failed_files = <<>>
    /\ files_at_start = {}

\* A user interaction makes Streamlit evaluate the script again from the top:
\* the page and the locals are rebuilt, session_state and the widgets are kept.
Rerun ==
    /\ pc' = "sidebar"
    /\ api_key' = None
    /\ vision_agent' = None
    /\ ux_agent' = None
    /\ design_files' = <<>>
    /\ analysis_types' = {}
    /\ specific_elements' = {}
    /\ context' = ""
    /\ file_idx' = 1
    /\ processed_images' = <<>>
    /\ image_urls' = <<>>
    /\ out' = <<>>
    /\ calls' = <<>>
    /\ uncaught' = FALSE
    /\ init_called' = FALSE
    /\ failed_files' = <<>>
    /\ files_at_start' = tempFiles
    /\ UNCHANGED <<api_key_input, tempFiles>>

\* ------------------------------------------------------------- user actions
EditKey ==
    /\ pc = "idle"
    /\ \E k \in Credentials :
        /\ k # api_key_widget
        /\ ~(api_key_widget = Unset /\ k = "")
        /\ api_key_widget' = k
    /\ clicked' = FALSE
    /\ UNCHANGED <<paste_widget, types_widget, focus_widget, context_widget>>
    /\ Rerun

PasteImage ==
    /\ pc = "idle"
    /\ Rendered(SubheaderUpload)
    /\ \E img \in Images :
        /\ img # paste_widget
        /\ paste_widget' = img
    /\ clicked' = FALSE
    /\ UNCHANGED <<api_key_widget, types_widget, focus_widget, context_widget>>
    /\ Rerun

SelectTypes ==
    /\ pc = "idle"
    /\ Rendered(SubheaderConfig)
    /\ \E S \in SUBSET AnalysisTypes :
        /\ S # types_widget
        /\ types_widget' = S
    /\ clicked' = FALSE
    /\ UNCHANGED <<api_key_widget, paste_widget, focus_widget, context_widget>>
    /\ Rerun

SelectFocus ==
    /\ pc = "idle"
    /\ Rendered(SubheaderConfig)
    /\ \E S \in FocusChoices :
        /\ S # focus_widget
        /\ focus_widget' = S
    /\ clicked' = FALSE
    /\ UNCHANGED <<api_key_widget, paste_widget, types_widget, context_widget>>
    /\ Rerun

EditContext ==
    /\ pc = "idle"
    /\ Rendered(SubheaderConfig)
    /\ \E c \in Contexts :
        /\ c # context_widget
        /\ context_widget' = c
    /\ clicked' = FALSE
    /\ UNCHANGED <<api_key_widget, paste_widget, types_widget, focus_widget>>
    /\ Rerun

ClickRun ==
    /\ pc = "idle"
    /\ Rendered(ButtonRun)
    /\ Cardinality(tempFiles) < MaxTempFiles
    /\ clicked' = TRUE
    /\ UNCHANGED widgets
    /\ Rerun

\* ------------------------------------------------------ sidebar, lines 47-74
\* if "api_key_input" not in st.session_state: st.session_state.api_key_input = ""
SessionDefault(ss) == IF ss = Unset THEN "" ELSE ss

\* st.text_input(value=..., key="api_key_widget"): the value typed in the browser,
\* or the value argument while nothing has been typed
text_input(widget, value) == IF widget = Unset THEN value ELSE widget

\* if api_key != st.session_state.api_key_input: st.session_state.api_key_input = api_key
SyncKey_Stale(ss, k) == ss
SyncKey(ss, k) == IF k # ss THEN k ELSE ss

\* Python truthiness of a str
Truthy(s) == s # ""

\* if api_key: st.success(...) else: st.warning(...); st.markdown(...)
SidebarStatus(k) == IF Truthy(k) THEN <<SuccessKey>> ELSE <<WarnKey, HelpKey>>

Sidebar ==
    /\ pc = "sidebar"
    /\ LET ss0 == SessionDefault(api_key_input)
           k   == text_input(api_key_widget, ss0)
       IN  /\ api_key' = k
           /\ api_key_input' = SyncKey(ss0, k)
           /\ out' = out \o SidebarStatus(k) \o <<HeaderApp>>
    /\ pc' = "guard"
    /\ UNCHANGED <<widgets, clicked, vision_agent, ux_agent, design_files,
                   analysis_types, specific_elements, context, file_idx,
                   processed_images, image_urls, tempFiles, calls, uncaught, history>>

\* ------------------------------------------- credential guard, lines 77, 209-210
GuardOpen_Always(ss) == TRUE
GuardOpen(ss) == Truthy(ss)

Guard ==
    /\ pc = "guard"
    /\ IF GuardOpen(api_key_input)
       THEN /\ pc' = "init"
            /\ out' = out
       ELSE /\ pc' = "footer"
            /\ out' = Append(out, InfoKey)
    /\ UNCHANGED <<widgets, clicked, api_key_input, locals, tempFiles, calls,
                   uncaught, history>>

\* ------------------------------------------------ initialize_agents, lines 11-44
VisionAgent == "agent: visual analysis expert"
UXAgent     == "agent: UX analysis expert"

\* the value initialize_agents returns: a pair, or on an exception a triple of None
initialize_agents(raises) ==
    IF raises THEN <<None, None, None>> ELSE <<VisionAgent, UXAgent>>

\* vision_agent, ux_agent = ... unpacks only a sequence of exactly two values
Unpacks(ret) == Len(ret) = 2

\* all([vision_agent, ux_agent])
AllAgents(v, u) == v # None /\ u # None

InitAgents ==
    /\ pc = "init"
    /\ init_called' = TRUE
    /\ \E raises \in BOOLEAN :
         LET ret  == initialize_agents(raises)
             out1 == IF raises THEN Append(out, ErrInit) ELSE out
         IN  IF Unpacks(ret)
             THEN /\ vision_agent' = ret[1]
                  /\ ux_agent' = ret[2]
                  /\ uncaught' = FALSE
                  /\ IF AllAgents(ret[1], ret[2])
                     THEN /\ pc' = "form"
                          /\ out' = out1
                     ELSE /\ pc' = "footer"
                          /\ out' = Append(out1, InfoKey)
             ELSE \* ValueError: too many values to unpack; nothing catches it,
                  \* the evaluation ends here
                  /\ uncaught' = TRUE
                  /\ pc' = "idle"
                  /\ out' = out1
                  /\ UNCHANGED <<vision_agent, ux_agent>>
    /\ UNCHANGED <<widgets, clicked, api_key_input, api_key, design_files,
                   analysis_types, specific_elements, context, file_idx,
                   processed_images, image_urls, tempFiles, calls,
                   failed_files, files_at_start>>

\* ------------------------------------------------- upload and form, lines 82-114
\* design_files = []; if paste_image.image_data is not None: design_files.append(paste_image)
DesignFiles(paste) == IF paste # None THEN <<paste>> ELSE <<>>

Form ==
    /\ pc = "form"
    /\ design_files' = DesignFiles(paste_widget)
    /\ analysis_types' = types_widget
    /\ specific_elements' = focus_widget
    /\ context' = context_widget
    /\ out' = out \o <<SubheaderUpload>>
                  \o (IF paste_widget # None THEN <<PastedImage>> ELSE <<>>)
                  \o <<SubheaderConfig>>
    /\ pc' = "button"
    /\ UNCHANGED <<widgets, clicked, api_key_input, api_key, vision_agent, ux_agent,
                   file_idx, processed_images, image_urls, tempFiles, calls,
                   uncaught, history>>

\* ------------------------------------------- Run Analysis, lines 117-119, 205-206
\* if design_files:
HasDesigns_Always(files) == TRUE
HasDesigns(files) == files # <<>>

Button ==
    /\ pc = "button"
    /\ IF clicked
       THEN IF HasDesigns(design_files)
            THEN /\ pc' = "process"
                 /\ out' = Append(out, ButtonRun)
            ELSE /\ pc' = "footer"
                 /\ out' = out \o <<ButtonRun, WarnNoDesign>>
       ELSE /\ pc' = "footer"
            /\ out' = Append(out, ButtonRun)
    /\ UNCHANGED <<widgets, clicked, api_key_input, locals, tempFiles, calls,
                   uncaught, history>>

\* --------------------------------------------------- process_images, lines 122-149
\* What file.image_data.save / open / f.write can do for one file: all succeed,
\* or one of them raises.  open() creates the file, so a failing write leaves it.
ConvertOutcomes == {"ok", "save_raises", "open_raises", "write_raises"}
CreatesFile(outcome) == outcome \in {"ok", "write_raises"}

\* uuid.uuid4().hex: a name no existing file has
uuid4_Fixed(files) == 1
uuid4(files) == CHOOSE p \in 1..(Cardinality(files) + 1) : p \notin files

ProcessImage ==
    /\ pc = "process"
    /\ file_idx <= Len(design_files)
    /\ \E outcome \in ConvertOutcomes :
         LET temp_path == uuid4(tempFiles) IN
         /\ tempFiles' = IF CreatesFile(outcome)
                         THEN tempFiles \cup {temp_path} ELSE tempFiles
         /\ IF outcome = "ok"
            THEN /\ processed_images' = Append(processed_images, temp_path)
                 /\ file_idx' = file_idx + 1
                 /\ pc' = pc
                 /\ UNCHANGED <<out, failed_files>>
            ELSE \* except Exception as e: st.error(f"... {file.name} ..."); continue
                 \* The pasted-image object is defined outside the repository and
                 \* the script reads only its image_data elsewhere: whether it
                 \* has a name attribute is left open.  Without one the handler
                 \* itself raises AttributeError, which leaves process_images.
                 /\ failed_files' = Append(failed_files, design_files[file_idx])
                 /\ processed_images' = processed_images
                 /\ \E has_name \in BOOLEAN :
                      IF has_name
                      THEN /\ out' = Append(out, ErrImage)
                           /\ file_idx' = file_idx + 1
                           /\ pc' = pc
                      ELSE /\ out' = out
                           /\ file_idx' = file_idx
                           /\ pc' = "except"
    /\ UNCHANGED <<widgets, clicked, api_key_input, api_key, vision_agent, ux_agent,
                   design_files, analysis_types, specific_elements, context,
                   image_urls, calls, uncaught, init_called, files_at_start>>

\* return processed_images; image_urls = process_images(design_files)
ProcessDone ==
    /\ pc = "process"
    /\ file_idx > Len(design_files)
    /\ image_urls' = processed_images
    /\ pc' = "vision"
    /\ UNCHANGED <<widgets, clicked, api_key_input, api_key, vision_agent, ux_agent,
                   design_files, analysis_types, specific_elements, context,
                   file_idx, processed_images, tempFiles, out, calls, uncaught,
                   history>>

\* ------------------------------------------------ category branches, lines 151-191
vision_prompt(elements, ctx) ==
    [template |-> "Analyze these designs focusing on", focus |-> elements, context |-> ctx]
ux_prompt(elements, ctx) ==
    [template |-> "Evaluate the user experience considering", focus |-> elements,
     context |-> ctx]

\* if "Visual Design" in analysis_types and design_files:
RunsVision_Always(types, files) == TRUE
RunsVision(types, files) == "Visual Design" \in types /\ files # <<>>

\* if "User Experience" in analysis_types:
RunsUX(types) == "User Experience" \in types

\* if image_urls:
HasImages_Always(urls) == TRUE
HasImages(urls) == urls # <<>>

\* where control goes when agent.run raises inside the try of line 120: the
\* except clause of line 202, whatever the branch that made the call
RaiseTarget_PerCategory(next) == next
RaiseTarget(next) == "except"

\* agent.run(message=..., images=...): one remote call, which returns or raises
Run(agent, message, images, ok) ==
    [agent |-> agent, message |-> message, images |-> images,
     pos |-> Len(out), ok |-> ok]

Vision ==
    /\ pc = "vision"
    /\ IF RunsVision(analysis_types, design_files) /\ HasImages(image_urls)
       THEN \E ok \in BOOLEAN :
              /\ calls' = Append(calls, Run(vision_agent,
                                vision_prompt(specific_elements, context), image_urls, ok))
              /\ IF ok
                 THEN /\ out' = out \o <<HeadingVision, ContentVision>>
                      /\ pc' = "ux"
                 ELSE /\ out' = out
                      /\ pc' = RaiseTarget("ux")
       ELSE /\ pc' = "ux"
            /\ UNCHANGED <<out, calls>>
    /\ UNCHANGED <<widgets, clicked, api_key_input, locals, tempFiles, uncaught, history>>

UX ==
    /\ pc = "ux"
    /\ IF RunsUX(analysis_types) /\ HasImages(image_urls)
       THEN \E ok \in BOOLEAN :
              /\ calls' = Append(calls, Run(ux_agent,
                                ux_prompt(specific_elements, context), image_urls, ok))
              /\ IF ok
                 THEN /\ out' = out \o <<HeadingUX, ContentUX>>
                      /\ pc' = "combined"
                 ELSE /\ out' = out
                      /\ pc' = RaiseTarget("combined")
       ELSE /\ pc' = "combined"
            /\ UNCHANGED <<out, calls>>
    /\ UNCHANGED <<widgets, clicked, api_key_input, locals, tempFiles, uncaught, history>>

\* ------------------------------------------------ combined insights, lines 193-200
\* if len(analysis_types) > 1:
ShowsCombined_Never(types) == FALSE
ShowsCombined(types) == Cardinality(types) > 1

Combined ==
    /\ pc = "combined"
    /\ out' = IF ShowsCombined(analysis_types)
              THEN out \o <<HeadingTakeaways, InfoTakeaways>> ELSE out
    /\ pc' = "footer"
    /\ UNCHANGED <<widgets, clicked, api_key_input, locals, tempFiles, calls,
                   uncaught, history>>

\* ----------------------------------------------- except Exception, lines 202-204
Except ==
    /\ pc = "except"
    /\ out' = out \o <<ErrAnalysis, HintKey>>
    /\ pc' = "footer"
    /\ UNCHANGED <<widgets, clicked, api_key_input, locals, tempFiles, calls,
                   uncaught, history>>

\* ----------------------------------------------------------- footer, lines 212-222
Footer ==
    /\ pc = "footer"
    /\ out' = out \o <<FooterRule, FooterTips>>
    /\ pc' = "idle"
    /\ UNCHANGED <<widgets, clicked, api_key_input, locals, tempFiles, calls,
                   uncaught, history>>

Next ==
    \/ EditKey \/ PasteImage \/ SelectTypes \/ SelectFocus \/ EditContext \/ ClickRun
    \/ Sidebar \/ Guard \/ InitAgents \/ Form \/ Button
    \/ ProcessImage \/ ProcessDone \/ Vision \/ UX \/ Combined \/ Except \/ Footer

Spec == Init /\ [][Next]_vars

\* =================================================================== properties
\* The Run Analysis handler (the body of line 117) was entered in this evaluation.
RunEntered == clicked /\ Rendered(ButtonRun)
\* What the evaluation rendered after the button.
AfterButton == SubSeq(out, Pos(ButtonRun) + 1, Len(out))
NewFiles == tempFiles \ files_at_start
AllCallsOk == \A i \in DOMAIN calls : calls[i].ok
AgentOf(type) == IF type = "Visual Design" THEN VisionAgent ELSE UXAgent

\* C1: in every evaluation whose stored credential (session_state.api_key_input)
\* is empty once the sidebar has run, no remote agent call is made, no agent is
\* initialized, and the warning 'Please enter your API key to proceed' is shown.
C1_EmptyCredentialBlocks ==
    (pc # "sidebar" /\ api_key_input = "") =>
        /\ calls = <<>>
        /\ ~init_called
        /\ vision_agent = None /\ ux_agent = None
        /\ Rendered(WarnKey)

\* C1 witness: the credential was cleared after an earlier run had completed.
C1_Witness ==
    /\ pc = "idle" /\ api_key_input = "" /\ api_key_widget = ""
    /\ tempFiles # {}
    /\ Rendered(WarnKey) /\ Rendered(FooterTips)

\* C2: when the Run Analysis handler is entered with an empty design_files, the
\* handler renders exactly the warning 'Please upload at least one design to
\* analyze.', makes no remote call and writes no temporary file, whatever
\* categories, focus tags and context are selected.
C2_NoDesignsWarnsOnly ==
    (RunEntered /\ design_files = <<>>) =>
        /\ api_key_input # ""
        /\ calls = <<>>
        /\ NewFiles = {}
        /\ pc \in {"footer", "idle"}
        /\ AfterButton \in {<<WarnNoDesign>>, <<WarnNoDesign, FooterRule, FooterTips>>}

\* C2 witness: a run without an image, with both categories, a changed focus
\* selection and a context.
C2_Witness ==
    /\ pc = "idle" /\ RunEntered /\ design_files = <<>>
    /\ analysis_types = AnalysisTypes
    /\ specific_elements # DefaultFocus
    /\ context # ""
    /\ Rendered(WarnNoDesign)

\* C3 as stated: in every completed run with at least one design asset and
\* exactly one selected category, exactly one remote call is made, on the agent
\* bound to that category, whatever the outcome of asset conversion.
C3_Original ==
    (pc = "idle" /\ RunEntered /\ design_files # <<>>
        /\ Cardinality(analysis_types) = 1) =>
        /\ Len(calls) = 1
        /\ \A t \in analysis_types : calls[1].agent = AgentOf(t)

\* C3 amended: in every completed run with at least one design asset and exactly
\* one selected category, exactly one remote call is made, on the agent bound to
\* that category, provided at least one asset was converted (image_urls is not
\* empty); when no asset was converted no remote call is made.
C3_OneCallWhenConverted ==
    (pc = "idle" /\ RunEntered /\ design_files # <<>>
        /\ Cardinality(analysis_types) = 1) =>
        IF image_urls # <<>>
        THEN /\ Len(calls) = 1
             /\ \A t \in analysis_types : calls[1].agent = AgentOf(t)
        ELSE calls = <<>>

\* C3 witness: a completed run with only Visual Design selected and its one call.
C3_Witness ==
    /\ pc = "idle" /\ RunEntered /\ design_files # <<>>
    /\ analysis_types = {"Visual Design"}
    /\ Len(calls) = 1 /\ calls[1].agent = VisionAgent

C5_ConversionFailureIsolated ==
    (pc = "idle" /\ failed_files # <<>>) =>
        /\ Count(ErrImage) = Len(failed_files)
        /\ Rendered(ErrAnalysis) => ~AllCallsOk

\* C6: a remote call that raises is the last call of its run: the handler
\* renders 'An error occurred during analysis' followed by 'Please check your
\* API key and try again.', the failed category's heading and 'Key Takeaways'
\* are not rendered, and after a failed Visual Design call ux_agent.run is
\* never called.
C6_RemoteErrorAbortsRun ==
    \A i \in DOMAIN calls :
        ~calls[i].ok =>
            /\ i = Len(calls)
            /\ pc \in {"except", "footer", "idle"}
            /\ pc # "except" =>
                  /\ Count(ErrAnalysis) = 1
                  /\ Rendered(HintKey) /\ Pos(HintKey) = Pos(ErrAnalysis) + 1
            /\ ~Rendered(HeadingTakeaways)
            /\ calls[i].agent = VisionAgent =>
                  /\ ~Rendered(HeadingVision)
                  /\ \A j \in DOMAIN calls : calls[j].agent # UXAgent
            /\ calls[i].agent = UXAgent => ~Rendered(HeadingUX)

\* C6 witness: both categories selected, the Visual Design call raised.
C6_Witness ==
    /\ pc = "idle" /\ analysis_types = AnalysisTypes
    /\ Len(calls) = 1 /\ calls[1].agent = VisionAgent /\ ~calls[1].ok
    /\ Rendered(ErrAnalysis)

\* C7 as stated: no error leaves the script evaluation uncaught; when agent
\* construction raises, the error is shown inline, the form is not reached and
\* the evaluation still completes with the footer.
C7_NoUncaughtError ==
    pc = "idle" =>
        /\ ~uncaught
        /\ Rendered(FooterTips)
        /\ Rendered(ErrInit) => ~Rendered(SubheaderUpload)

\* C8: after the sidebar block of every evaluation session_state.api_key_input
\* equals the value of the credential text input (the empty string while
\* nothing was typed), and the guard reads that value.
C8_SessionTracksField ==
    pc # "sidebar" =>
        /\ api_key_input = api_key
        /\ api_key_input = (IF api_key_widget = Unset THEN "" ELSE api_key_widget)
        /\ pc = "init" => api_key_input # ""

\* C8 witness: the guard is about to read a credential that was cleared after
\* a run.
C8_Witness ==
    /\ pc = "guard" /\ api_key_widget = "" /\ api_key_input = ""
    /\ tempFiles # {}

\* State part of C9: the converted assets' files are distinct files written in
\* this evaluation, and a failed conversion leaves at most one more file.
C9_FilesState ==
    /\ \A i \in DOMAIN processed_images : processed_images[i] \in NewFiles
    /\ \A i, j \in DOMAIN processed_images :
         processed_images[i] = processed_images[j] => i = j
    /\ Cardinality(NewFiles) >= Len(processed_images)
    /\ Cardinality(NewFiles) <= Len(processed_images) + Len(failed_files)
    /\ (pc = "idle" /\ RunEntered /\ design_files # <<>> /\ failed_files = <<>>) =>
         /\ Len(image_urls) = Len(design_files)
         /\ Cardinality(NewFiles) = Len(design_files)
\* Step part of C9: only process_images writes, and nothing removes a file.
C9_FilesStep ==
    /\ tempFiles \subseteq tempFiles'
    /\ pc # "process" => tempFiles' = tempFiles

\* C9: every converted asset of a run has its own temporary file, written in
\* this run; a run writes at most one file per design asset, only inside
\* process_images (so independently of the categories), and no step ever
\* removes a temporary file, so the set of temporary files only grows.
C9_TempFilesOnlyGrow == []C9_FilesState /\ [][C9_FilesStep]_vars

\* C9 witness: a run with both categories called wrote one file, after earlier
\* runs had left theirs.
C9_Witness ==
    /\ pc = "idle" /\ Len(calls) = 2
    /\ Cardinality(NewFiles) = 1
    /\ Cardinality(files_at_start) >= 2

\* C10: every remote call receives the non-empty image_urls of its run, so two
\* calls of a run receive the same list; a category heading is rendered only
\* after a call of that category's agent has returned.
C10_CallsGetImages ==
    /\ \A i \in DOMAIN calls :
         calls[i].images # <<>> /\ calls[i].images = image_urls
    /\ Rendered(HeadingVision) =>
         \E i \in DOMAIN calls :
            calls[i].agent = VisionAgent /\ calls[i].ok
            /\ Pos(HeadingVision) > calls[i].pos
    /\ Rendered(HeadingUX) =>
         \E i \in DOMAIN calls :
            calls[i].agent = UXAgent /\ calls[i].ok /\ Pos(HeadingUX) > calls[i].pos

\* C10 witness: both headings rendered, the second call raised nothing.
C10_Witness ==
    /\ Rendered(HeadingVision) /\ Rendered(HeadingUX)
    /\ Len(calls) = 2 /\ calls[1].images = calls[2].images
    /\ calls[1].images # <<>>

====
